---------------------------- MODULE Spec2Model ----------------------------
(***************************************************************************)
(* Bee Bright backend (Express application, src/unnamed/part_000 and its   *)
(* development variant src/app.js).                                        *)
(*                                                                         *)
(* The model covers the request handlers and the state they touch: the     *)
(* MongoDB handle `db` and the asynchronous connect that sets it, the      *)
(* `contenido` collection, the JWT session tokens, and the contact relay.  *)
(*                                                                         *)
(* A request is modelled from the point where Express dispatches it to its *)
(* route: the global middlewares (cors, bodyParser.json, cookieParser)     *)
(* have run and req.body is an object, req.cookies a cookie map.           *)
(*                                                                         *)
(* Time is counted in hours, the unit of `expiresIn: '2h'`.                *)
(***************************************************************************)
EXTENDS Integers, Sequences, FiniteSets, TLC

\* ------------------------------------------------------------- bounds ----
MaxTime == 3
MaxDocs == 2
MaxInFlight == 2
MaxStrLen == 2

\* ---------------------------------------------------------- constants ----
\* jwt.sign(..., { expiresIn: '2h' })
ExpiresIn == 2

\* process.env.JWT_SECRET || "secretkey"
JWT_SECRET == "secretkey"

VARIABLES
    now,          \* the clock jwt reads (Date.now()), in hours
    db,           \* `let db`: "undefined" until client.db('BeeBright') is assigned
    connectState, \* position of the connect IIFE: "pending", "connected", "failed"
    contenido,    \* the collection db.collection('contenido'): documents in natural order
    upserts,      \* updateOne upserts that matched no document and have not inserted yet
    issued,       \* every token jwt.sign has returned (what a client may replay)
    loggedOut,    \* the tokens that were issued when the latest logout was handled
    mails,        \* transporter.sendMail calls whose callback has not run yet
    last          \* the request handled last and what the server did with it

vars == <<now, db, connectState, contenido, upserts, issued, loggedOut, mails, last>>

\* ------------------------------------------------------ JS values --------
\* A JSON value of a request body field, or undefined for a missing field.
Undefined == [t |-> "undefined", v |-> ""]
Number == [t |-> "number", v |-> "5"]
String(s) == [t |-> "string", v |-> s]

\* ------------------------------------------------------ admin identity ---
\* bcrypt.hashSync(s, 10): a salted digest; only compareSync relates it to s.
hashSync(s) == [alg |-> "bcrypt", rounds |-> 10, digest |-> <<"H", s>>]

\* bcrypt.compareSync(s, hash): throws "Illegal arguments" unless s is a string.
compareSync(s, hash) ==
    IF s.t # "string" THEN "throw"
    ELSE IF hash.digest = <<"H", s.v>> THEN "true" ELSE "false"

ADMIN_USER == [username |-> String("admin"), passwordHash |-> hashSync("123456")]

\* ------------------------------------------------------ session tokens ---
\* A cookie value: absent, the empty string, a string that is no JWT, or a JWT
\* with the key that signed it and its iat and exp claims.
NoCookie == [kind |-> "undefined", sig |-> "", sub |-> "", iat |-> 0, exp |-> 0]
EmptyCookie == [kind |-> "empty", sig |-> "", sub |-> "", iat |-> 0, exp |-> 0]
Garbage == [kind |-> "garbage", sig |-> "", sub |-> "", iat |-> 0, exp |-> 0]

\* Mutant: an expiry of one hour.
jwt_sign_1h(username, secret, clock) ==
    [kind |-> "jwt", sig |-> secret, sub |-> username, iat |-> clock, exp |-> clock + 1]

\* jwt.sign({ username }, secret, { expiresIn: '2h' })
jwt_sign(username, secret, clock) ==
    [kind |-> "jwt", sig |-> secret, sub |-> username, iat |-> clock,
     exp |-> clock + ExpiresIn]

\* Mutant: verification that ignores the exp claim.
jwt_verify_noexp(token, secret, clock) ==
    IF token.kind # "jwt" THEN "jwt malformed"
    ELSE IF token.sig # secret THEN "invalid signature"
    ELSE "ok"

\* Mutant: verification that also consults a revocation list filled at logout.
jwt_verify_revoking(token, secret, clock) ==
    IF token.kind # "jwt" THEN "jwt malformed"
    ELSE IF token.sig # secret THEN "invalid signature"
    ELSE IF clock >= token.exp THEN "jwt expired"
    ELSE IF token \in loggedOut THEN "revoked"
    ELSE "ok"

\* jwt.verify(token, secret): "ok", or the error it throws.
jwt_verify(token, secret, clock) ==
    IF token.kind # "jwt" THEN "jwt malformed"
    ELSE IF token.sig # secret THEN "invalid signature"
    ELSE IF clock >= token.exp THEN "jwt expired"
    ELSE "ok"

\* Tokens signed with a key that is not the server's, with any claims.
Forged == {[kind |-> "jwt", sig |-> "otherkey", sub |-> "admin", iat |-> i, exp |-> e] :
             i \in {0}, e \in {MaxTime + ExpiresIn + 1}}

\* The cookies a request may carry.
Cookies == {NoCookie, EmptyCookie, Garbage} \cup Forged \cup issued

\* A response: res.status(s).json(b) / .send(b) / .redirect(b).
Response(s, b) == [status |-> s, body |-> b]

\* Mutant: the gate lets a request without a token through.
verifyAdminOpen(token, clock) ==
    IF token.kind \in {"undefined", "empty"}
    THEN [next |-> TRUE, res |-> <<>>]
    ELSE IF jwt_verify(token, JWT_SECRET, clock) = "ok"
         THEN [next |-> TRUE, res |-> <<>>]
         ELSE [next |-> FALSE, res |-> <<Response(403, "Token invalido")>>]

\* Mutant: the gate answers a bad token with 401.
verifyAdmin401(token, clock) ==
    IF token.kind \in {"undefined", "empty"}
    THEN [next |-> FALSE, res |-> <<Response(403, "No autorizado")>>]
    ELSE IF jwt_verify(token, JWT_SECRET, clock) = "ok"
         THEN [next |-> TRUE, res |-> <<>>]
         ELSE [next |-> FALSE, res |-> <<Response(401, "Token invalido")>>]

\* function verifyAdmin(req, res, next): whether next() is called, and the
\* responses the gate itself sends.  `!token` holds for undefined and for "".
verifyAdmin(token, clock) ==
    IF token.kind \in {"undefined", "empty"}
    THEN [next |-> FALSE, res |-> <<Response(403, "No autorizado")>>]
    ELSE IF jwt_verify(token, JWT_SECRET, clock) = "ok"
         THEN [next |-> TRUE, res |-> <<>>]
         ELSE [next |-> FALSE, res |-> <<Response(403, "Token invalido")>>]


\* ------------------------------------------------------ the record --------
\* What the server did with one request: the route, the cookie and input it
\* carried, the time, whether the route's handler ran (next() of the gate, TRUE
\* for an open route), the responses sent (res), the Set-Cookie instructions,
\* the external calls made, the document a read returned, and, for a content
\* update, the document a read would have returned just before it.
Handled(route, cookie, input, next, res, setCookie, calls, doc, prior) ==
    [route |-> route, cookie |-> cookie, input |-> input, at |-> now,
     next |-> next, res |-> res, setCookie |-> setCookie, calls |-> calls,
     doc |-> doc, prior |-> prior]

NoDoc == << >>

\* What Express does with an error that escapes an async handler: Express 4
\* leaves the promise rejected and never answers; Express 5 passes it to the
\* default error handler, which answers 500.
Escaped == {<< >>, <<Response(500, "Internal Server Error")>>}

\* ------------------------------------------------------ startup -----------
Init ==
    /\ now = 0
    /\ db = "undefined"
    /\ connectState = "pending"
    /\ contenido = << >>
    /\ upserts = << >>
    /\ issued = {}
    /\ loggedOut = {}
    /\ mails = 0
    /\ last = Handled("none", NoCookie, Undefined, FALSE, << >>, << >>, {}, NoDoc, NoDoc)

\* The clock advances.
Tick ==
    /\ now < MaxTime
    /\ now' = now + 1
    /\ UNCHANGED <<db, connectState, contenido, upserts, issued, loggedOut, mails, last>>

\* (async () => { try { await client.connect(); db = client.db('BeeBright') }
\*                catch (err) { console.error(...) } })()
Connect(ok) ==
    /\ connectState = "pending"
    /\ connectState' = IF ok THEN "connected" ELSE "failed"
    /\ db' = IF ok THEN "BeeBright" ELSE db
    /\ UNCHANGED <<now, contenido, upserts, issued, loggedOut, mails, last>>

\* ------------------------------------------------------ login / logout ----
Usernames == {Undefined, Number, String("admin"), String("root")}
Passwords == {Undefined, Number, String("123456"), String("wrong")}

\* app.post('/api/login', ...)
Login(cookie, username, password) ==
    LET input == [username |-> username, password |-> password]
        userOk == username = ADMIN_USER.username
        cmp == IF userOk THEN compareSync(password, ADMIN_USER.passwordHash)
               ELSE "skipped"
        token == jwt_sign(username.v, JWT_SECRET, now)
    IN  /\ IF ~userOk \/ cmp = "false"
           THEN /\ last' = Handled("/api/login", cookie, input, TRUE,
                                   <<Response(401, "Credenciales invalidas")>>,
                                   << >>, IF userOk THEN {"compareSync"} ELSE {},
                                   NoDoc, NoDoc)
                /\ issued' = issued
           ELSE IF cmp = "throw"
           THEN /\ \E escaped \in Escaped :
                    last' = Handled("/api/login", cookie, input, TRUE, escaped,
                                    << >>, {"compareSync"}, NoDoc, NoDoc)
                /\ issued' = issued
           ELSE /\ last' = Handled("/api/login", cookie, input, TRUE,
                                   <<Response(200, "Login exitoso")>>,
                                   <<[op |-> "set", token |-> token]>>,
                                   {"compareSync", "jwt.sign"}, NoDoc, NoDoc)
                /\ issued' = issued \cup {token}
        /\ UNCHANGED <<now, db, connectState, contenido, upserts, loggedOut, mails>>

\* app.post('/api/logout', ...): res.clearCookie("token"); nothing else.
Logout(cookie) ==
    /\ last' = Handled("/api/logout", cookie, Undefined, TRUE,
                       <<Response(200, "Sesion cerrada")>>,
                       <<[op |-> "clear", token |-> NoCookie]>>, {}, NoDoc, NoDoc)
    /\ loggedOut' = issued
    /\ UNCHANGED <<now, db, connectState, contenido, upserts, issued, mails>>

\* app.get(['/admin', '/admin.html'], ...): the page, or a redirect to the login.
AdminPage(cookie) ==
    /\ last' = IF cookie.kind \in {"undefined", "empty"}
               THEN Handled("/admin", cookie, Undefined, TRUE,
                            <<Response(302, "/login.html")>>, << >>, {}, NoDoc, NoDoc)
               ELSE IF jwt_verify(cookie, JWT_SECRET, now) = "ok"
               THEN Handled("/admin", cookie, Undefined, TRUE,
                            <<Response(200, "admin.html")>>, << >>, {}, NoDoc, NoDoc)
               ELSE Handled("/admin", cookie, Undefined, TRUE,
                            <<Response(302, "/login.html")>>, << >>, {}, NoDoc, NoDoc)
    /\ UNCHANGED <<now, db, connectState, contenido, upserts, issued, loggedOut, mails>>

\* ------------------------------------------------------ image upload ------
\* app.post('/api/upload-image', verifyAdmin, upload.single('imagen'), ...):
\* `file` says whether the request carried the field `imagen` (req.file is set),
\* `ok` whether cloudinary.uploader.upload resolves.
UploadImage(cookie, file, ok) ==
    LET gate == verifyAdmin(cookie, now)
        input == [file |-> file]
    IN  /\ last' = IF ~gate.next
                   THEN Handled("/api/upload-image", cookie, input, FALSE, gate.res,
                                << >>, {}, NoDoc, NoDoc)
                   ELSE IF ~file
                   THEN Handled("/api/upload-image", cookie, input, TRUE,
                                <<Response(500, "Error al subir imagen")>>,
                                << >>, {}, NoDoc, NoDoc)
                   ELSE IF ok
                   THEN Handled("/api/upload-image", cookie, input, TRUE,
                                <<Response(200, "url")>>, << >>, {"upload"}, NoDoc, NoDoc)
                   ELSE Handled("/api/upload-image", cookie, input, TRUE,
                                <<Response(500, "Error al subir imagen")>>,
                                << >>, {"upload"}, NoDoc, NoDoc)
        /\ UNCHANGED <<now, db, connectState, contenido, upserts, issued, loggedOut, mails>>

\* ------------------------------------------------------ content store -----
\* A document is a function from the names of its fields to their values
\* (the _id the store adds is the document's place in the collection).
Fields == {"id", "title", "hero"}
FieldValues == [id |-> {"other"}, title |-> {"A", "B"}, hero |-> {"A"}]

\* The JSON objects a client may send as the body of an update: one field at
\* least (a store older than MongoDB 5.0 fails an empty $set).
Bodies ==
    UNION {{b \in [S -> {"other", "A", "B"}] : \A f \in S : b[f] \in FieldValues[f]} :
             S \in SUBSET Fields \ {{}}}

\* The filter { id: 'site-content' }
Matches(doc) == "id" \in DOMAIN doc /\ doc["id"] = "site-content"

\* The first document of the collection the filter matches, 0 if none.
FirstMatch(coll) ==
    IF \E i \in DOMAIN coll : Matches(coll[i])
    THEN CHOOSE i \in DOMAIN coll :
            Matches(coll[i]) /\ \A j \in DOMAIN coll : Matches(coll[j]) => i <= j
    ELSE 0

\* collection.findOne({ id: 'site-content' }) followed by `data || {}`
findOne(coll) == IF FirstMatch(coll) = 0 THEN NoDoc ELSE coll[FirstMatch(coll)]

\* { $set: data }: the given fields are written, the others kept.
Set(doc, data) ==
    [f \in DOMAIN doc \cup DOMAIN data |-> IF f \in DOMAIN data THEN data[f] ELSE doc[f]]

\* The document an upsert inserts: the filter's equality fields, then $set.
Upserted(data) == Set([id |-> "site-content"], data)

Remove(seq, i) == SubSeq(seq, 1, i - 1) \o SubSeq(seq, i + 1, Len(seq))

\* app.post('/api/update-section', verifyAdmin, ...): `ok` says whether the
\* store carries the operation out (updateOne resolves) or fails it (rejects).
\* updateOne modifies a matching document in one step; when none matches, the
\* insert of the upsert is a step of its own (UpsertInsert), and the response
\* is sent after it.
UpdateSection(cookie, data, ok) ==
    LET gate == verifyAdmin(cookie, now)
        prior == findOne(contenido)
        i == FirstMatch(contenido)
        route == "/api/update-section"
    IN  IF ~gate.next
        THEN /\ last' = Handled(route, cookie, data, FALSE, gate.res, << >>, {},
                                NoDoc, prior)
             /\ UNCHANGED <<now, db, connectState, contenido, upserts, issued,
                            loggedOut, mails>>
        ELSE IF db = "undefined"
        THEN /\ last' = Handled(route, cookie, data, TRUE,
                                <<Response(500, "Error al guardar contenido")>>,
                                << >>, {}, NoDoc, prior)
             /\ UNCHANGED <<now, db, connectState, contenido, upserts, issued,
                            loggedOut, mails>>
        ELSE IF ~ok
        THEN /\ last' = Handled(route, cookie, data, TRUE,
                                <<Response(500, "Error al guardar contenido")>>,
                                << >>, {"updateOne"}, NoDoc, prior)
             /\ UNCHANGED <<now, db, connectState, contenido, upserts, issued,
                            loggedOut, mails>>
        ELSE IF i # 0
        THEN /\ contenido' = [contenido EXCEPT ![i] = Set(@, data)]
             /\ last' = Handled(route, cookie, data, TRUE,
                                <<Response(200, "Contenido actualizado")>>,
                                << >>, {"updateOne"}, NoDoc, prior)
             /\ UNCHANGED <<now, db, connectState, upserts, issued, loggedOut, mails>>
        ELSE /\ Len(upserts) < MaxInFlight
             /\ upserts' = Append(upserts, [cookie |-> cookie, data |-> data, at |-> now])
             /\ last' = Handled(route, cookie, data, TRUE, << >>, << >>,
                                {"updateOne"}, NoDoc, prior)
             /\ UNCHANGED <<now, db, connectState, contenido, issued, loggedOut, mails>>

\* The insert of an upsert that matched nothing, and the handler's response
\* after `await collection.updateOne(...)`.  The store does not look for a
\* match again: the collection has no unique index on `id`.
UpsertInsert(i) ==
    /\ i \in DOMAIN upserts
    /\ Len(contenido) < MaxDocs
    /\ contenido' = Append(contenido, Upserted(upserts[i].data))
    /\ upserts' = Remove(upserts, i)
    /\ last' = [Handled("/api/update-section", upserts[i].cookie, upserts[i].data,
                        TRUE, <<Response(200, "Contenido actualizado")>>, << >>,
                        {"updateOne"}, NoDoc, NoDoc)
                  EXCEPT !.at = upserts[i].at]
    /\ UNCHANGED <<now, db, connectState, issued, loggedOut, mails>>

\* Mutant: the read without its try/catch.
GetContentNoCatch(ok) ==
    /\ \E escaped \in Escaped :
         last' = IF db = "undefined"
                 THEN Handled("/api/get-content", NoCookie, Undefined, TRUE, escaped,
                              << >>, {}, NoDoc, NoDoc)
                 ELSE IF ~ok
                 THEN Handled("/api/get-content", NoCookie, Undefined, TRUE, escaped,
                              << >>, {"findOne"}, NoDoc, NoDoc)
                 ELSE Handled("/api/get-content", NoCookie, Undefined, TRUE,
                              <<Response(200, "json")>>, << >>, {"findOne"},
                              findOne(contenido), NoDoc)
    /\ UNCHANGED <<now, db, connectState, contenido, upserts, issued, loggedOut, mails>>

\* app.get('/api/get-content', ...): `ok` as for UpdateSection.
GetContent(ok) ==
    /\ last' = IF db = "undefined"
               THEN Handled("/api/get-content", NoCookie, Undefined, TRUE,
                            <<Response(500, "Error al obtener contenido")>>,
                            << >>, {}, NoDoc, NoDoc)
               ELSE IF ~ok
               THEN Handled("/api/get-content", NoCookie, Undefined, TRUE,
                            <<Response(500, "Error al obtener contenido")>>,
                            << >>, {"findOne"}, NoDoc, NoDoc)
               ELSE Handled("/api/get-content", NoCookie, Undefined, TRUE,
                            <<Response(200, "json")>>, << >>, {"findOne"},
                            findOne(contenido), NoDoc)
    /\ UNCHANGED <<now, db, connectState, contenido, upserts, issued, loggedOut, mails>>

\* ------------------------------------------------------ contact relay -----
\* A contact field: a string is the sequence of its characters.
CUndefined == [t |-> "undefined", v |-> << >>]
CNumber == [t |-> "number", v |-> << >>]
CString(s) == [t |-> "string", v |-> s]

WhiteSpace == {" ", "\n"}
Chars == {" ", "a"}
Strings == UNION {[1..n -> Chars] : n \in 0..MaxStrLen}
ContactValues == {CUndefined, CNumber} \cup {CString(s) : s \in Strings}
ShortValues == {CUndefined, CNumber} \cup {CString(s) : s \in UNION {[1..n -> Chars] : n \in 0..1}}
OptionalValues == {CUndefined, CString(<<"a">>)}

RECURSIVE trimStart(_)
trimStart(s) ==
    IF s # << >> /\ Head(s) \in WhiteSpace THEN trimStart(Tail(s)) ELSE s

RECURSIVE trimEnd(_)
trimEnd(s) ==
    IF s # << >> /\ s[Len(s)] \in WhiteSpace THEN trimEnd(SubSeq(s, 1, Len(s) - 1)) ELSE s

\* String.prototype.trim
trim(s) == trimEnd(trimStart(s))

\* Mutant: the check without the trim.
isValidStringNoTrim(value) == value.t = "string" /\ value.v # << >>

\* const isValidString = (value) => typeof value === "string" && value.trim() !== "";
isValidString(value) == value.t = "string" /\ trim(value.v) # << >>

\* app.post("/enviarCorreo", ...): the validation and the call of sendMail.
enviarCorreo(gname, gmail, cname, cage, message) ==
    LET input == [gname |-> gname, gmail |-> gmail, cname |-> cname, cage |-> cage,
                  message |-> message]
    IN  IF ~isValidString(gname) \/ ~isValidString(gmail) \/ ~isValidString(message)
        THEN /\ last' = Handled("/enviarCorreo", NoCookie, input, TRUE,
                                <<Response(400, "Por favor, completa todos los campos obligatorios.")>>,
                                << >>, {}, NoDoc, NoDoc)
             /\ UNCHANGED <<now, db, connectState, contenido, upserts, issued,
                            loggedOut, mails>>
        ELSE /\ mails < MaxInFlight
             /\ mails' = mails + 1
             /\ last' = Handled("/enviarCorreo", NoCookie, input, TRUE, << >>, << >>,
                                {"sendMail"}, NoDoc, NoDoc)
             /\ UNCHANGED <<now, db, connectState, contenido, upserts, issued, loggedOut>>

\* transporter.sendMail's callback (error, info) => { ... }
sendMailCallback(error) ==
    /\ mails > 0
    /\ mails' = mails - 1
    /\ last' = Handled("sendMail callback", NoCookie, Undefined, TRUE,
                       IF error THEN <<Response(500, "Error al enviar el correo")>>
                       ELSE <<Response(200, "Correo enviado exitosamente")>>,
                       << >>, {}, NoDoc, NoDoc)
    /\ UNCHANGED <<now, db, connectState, contenido, upserts, issued, loggedOut>>

\* ------------------------------------------------------ specifications ----
\* The body an admin sends in the session specification.
SessionBodies == {b \in Bodies : DOMAIN b = {"title"} /\ b["title"] = "A"}

\* Sessions: the clock, login, logout and the protected routes; an update is
\* sent when no insert of an earlier one is pending.
NextSession ==
    \/ Tick
    \/ Connect(TRUE)
    \/ \E u \in Usernames, p \in Passwords : Login(NoCookie, u, p)
    \/ \E c \in Cookies : Logout(c)
    \/ \E c \in Cookies : AdminPage(c)
    \/ \E c \in Cookies, f \in BOOLEAN, ok \in BOOLEAN : UploadImage(c, f, ok)
    \/ \E c \in Cookies, d \in SessionBodies, ok \in BOOLEAN :
          upserts = << >> /\ UpdateSection(c, d, ok)
    \/ \E i \in 1..MaxInFlight : UpsertInsert(i)

SpecSession == Init /\ [][NextSession]_vars

\* Routes: the connect racing with every route, at one time of the clock.
NextRoutes ==
    \/ \E ok \in BOOLEAN : Connect(ok)
    \/ \E u \in Usernames, p \in Passwords : Login(NoCookie, u, p)
    \/ \E c \in Cookies : Logout(c)
    \/ \E c \in Cookies, f \in BOOLEAN, ok \in BOOLEAN : UploadImage(c, f, ok)
    \/ \E c \in Cookies, d \in SessionBodies, ok \in BOOLEAN : UpdateSection(c, d, ok)
    \/ \E i \in 1..MaxInFlight : UpsertInsert(i)
    \/ \E ok \in BOOLEAN : GetContent(ok)

SpecRoutes == Init /\ [][NextRoutes]_vars

\* Content: one admin session, every body, reads.
NextContent ==
    \/ \E ok \in BOOLEAN : Connect(ok)
    \/ Login(NoCookie, String("admin"), String("123456"))
    \/ \E c \in {NoCookie} \cup issued, d \in Bodies, ok \in BOOLEAN : UpdateSection(c, d, ok)
    \/ \E i \in 1..MaxInFlight : UpsertInsert(i)
    \/ \E ok \in BOOLEAN : GetContent(ok)

SpecContent == Init /\ [][NextContent]_vars

\* Contact: submissions and the mail callbacks.
NextContact ==
    \/ \E g \in ShortValues, m \in ShortValues, msg \in ContactValues,
          cn \in OptionalValues, ca \in OptionalValues : enviarCorreo(g, m, cn, ca, msg)
    \/ \E error \in BOOLEAN : sendMailCallback(error)

SpecContact == Init /\ [][NextContact]_vars

\* ------------------------------------------------------ properties -------
\* The routes behind verifyAdmin.
Protected == {"/api/update-section", "/api/upload-image"}

\* A token the server signed, presented within two hours of its issuance.
Fresh(token, at) ==
    token \in issued /\ token.iat <= at /\ at < token.iat + ExpiresIn

\* C1: a request to a protected route that carries no `token` cookie is
\* answered 403 by the gate, the handler is not invoked, no external call is
\* made, and the stored content and the pending writes are as before.
C1_NoCookieStopsAtGate ==
    [][(last'.route \in Protected /\ last'.cookie = NoCookie)
         => /\ ~last'.next
            /\ Len(last'.res) = 1 /\ last'.res[1].status = 403
            /\ last'.calls = {}
            /\ contenido' = contenido
            /\ upserts' = upserts]_vars

\* C1 witness: content is stored and an update without a cookie was refused.
C1_Witness ==
    /\ last.route = "/api/update-section"
    /\ last.cookie = NoCookie
    /\ ~last.next
    /\ contenido # << >>

\* C2: a login with the admin's username and password is answered 200 with
\* a `token` cookie signed now, and a token the server issued passes the gate
\* (and opens the admin page) at every time from its issuance until two hours
\* after it, whatever was handled in between.
C2_LoginTokenValidTwoHours ==
    /\ (last.route = "/api/login" /\ last.input.username = String("admin")
          /\ last.input.password = String("123456"))
         => /\ Len(last.res) = 1 /\ last.res[1].status = 200
            /\ Len(last.setCookie) = 1
            /\ last.setCookie[1].op = "set"
            /\ last.setCookie[1].token.iat = last.at
            /\ last.setCookie[1].token \in issued
    /\ (last.route \in Protected /\ Fresh(last.cookie, last.at)) => last.next
    /\ (last.route = "/admin" /\ Fresh(last.cookie, last.at))
         => last.res = <<Response(200, "admin.html")>>

\* C2 witness: a token is accepted in the last hour of its life, after a
\* logout and a second login.
C2_Witness ==
    /\ last.route \in Protected
    /\ last.cookie \in issued
    /\ last.at = last.cookie.iat + ExpiresIn - 1
    /\ last.next
    /\ last.cookie \in loggedOut
    /\ Cardinality(issued) >= 2

\* C3: a login whose credentials are not the admin's (wrong or missing or
\* non-string username or password) is answered 401, no cookie is set and no
\* token is signed.
C3_BadCredentialsGet401 ==
    (last.route = "/api/login"
       /\ ~(last.input.username = String("admin")
              /\ last.input.password = String("123456")))
      => /\ Len(last.res) = 1 /\ last.res[1].status = 401
         /\ last.setCookie = << >>
         /\ "jwt.sign" \notin last.calls

\* C4: a token presented more than two hours after its issuance is refused
\* by the gate (403, handler not invoked) and does not open the admin page.
C4_ExpiredTokenRefused ==
    /\ (last.route \in Protected /\ last.cookie.kind = "jwt"
          /\ last.at > last.cookie.iat + ExpiresIn)
         => /\ ~last.next
            /\ Len(last.res) = 1 /\ last.res[1].status = 403
    /\ (last.route = "/admin" /\ last.cookie.kind = "jwt"
          /\ last.at > last.cookie.iat + ExpiresIn)
         => last.res = <<Response(302, "/login.html")>>

\* C4 witness: a token the server signed was refused after its two hours.
C4_Witness ==
    /\ last.route \in Protected
    /\ last.cookie \in issued
    /\ last.at > last.cookie.iat + ExpiresIn
    /\ ~last.next

\* What the gate would answer at time `at` to each cookie it refuses.
Refusals(at) == {c \in Cookies : ~verifyAdmin(c, at).next}
Missing(c) == c.kind \in {"undefined", "empty"}

\* C7 as stated: every request the gate refuses gets the same response
\* (status and body), whether the token is missing, malformed, wrongly signed
\* or expired.
C7_OneRejection ==
    (last.route \in Protected /\ ~last.next)
      => \A c \in Refusals(last.at) : verifyAdmin(c, last.at).res = last.res

\* C7 amended: every refusal has status 403; the refusals of a present but
\* invalid token (malformed, wrongly signed, expired) are equal to each other,
\* the refusals of a missing token are equal to each other, and a refusal of a
\* missing token differs from one of an invalid token in its body.
C7_SameStatusTwoBodies ==
    (last.route \in Protected /\ ~last.next)
      => /\ Len(last.res) = 1 /\ last.res[1].status = 403
         /\ \A c \in Refusals(last.at) :
              /\ verifyAdmin(c, last.at).res[1].status = 403
              /\ (Missing(c) <=> Missing(last.cookie))
                   <=> verifyAdmin(c, last.at).res = last.res

\* C7 witness: an expired token of the server's was refused.
C7_Witness ==
    /\ last.route \in Protected
    /\ ~last.next
    /\ last.cookie \in issued
    /\ last.at >= last.cookie.exp

\* C8: a logout changes nothing on the server (it only tells the client to
\* clear the cookie), and a token that had been issued when a logout was
\* handled still passes the gate when presented within its two hours.
C8_LogoutDoesNotRevoke ==
    [][/\ (\E c \in Cookies : Logout(c))
            => /\ UNCHANGED <<db, connectState, contenido, upserts, issued, mails>>
               /\ last'.setCookie = <<[op |-> "clear", token |-> NoCookie]>>
       /\ (last'.route \in Protected /\ last'.cookie \in loggedOut'
             /\ last'.cookie.iat <= last'.at
             /\ last'.at < last'.cookie.iat + ExpiresIn)
            => last'.next]_vars

\* C8 witness: a token was replayed on the upload route after a logout and
\* was accepted.
C8_Witness ==
    /\ last.route = "/api/upload-image"
    /\ last.cookie \in loggedOut
    /\ last.at < last.cookie.exp
    /\ last.next

\* An update by a request that passes the gate.
AuthorizedUpdate(ok) ==
    \E c \in issued, d \in SessionBodies :
        /\ c.iat <= now /\ now < c.iat + ExpiresIn
        /\ UpdateSection(c, d, ok)

\* C10: a read or an authorized update handled while db is still undefined
\* (the connect is pending or has failed) is answered with one 500 and
\* writes nothing; after a successful connect, one the store carries out is
\* not answered 500.
C10_BeforeConnect500 ==
    [][/\ (db = "undefined" /\ \E ok \in BOOLEAN : GetContent(ok) \/ AuthorizedUpdate(ok))
            => /\ Len(last'.res) = 1 /\ last'.res[1].status = 500
               /\ last'.calls = {}
               /\ contenido' = contenido
               /\ upserts' = upserts
       /\ (db # "undefined" /\ (GetContent(TRUE) \/ AuthorizedUpdate(TRUE)))
            => \A i \in DOMAIN last'.res : last'.res[i].status = 200]_vars

\* C10 witness: a read was answered 500 after the connect had failed.
C10_Witness ==
    /\ connectState = "failed"
    /\ last.route = "/api/get-content"
    /\ Len(last.res) = 1 /\ last.res[1].status = 500

\* C5: after an update that was answered 200, a read answered 200 returns a
\* document with every field of the update's body at its new value and every
\* field stored before and not named in the body at its prior value.
C5_GetReflectsUpdate ==
    [][(last.route = "/api/update-section" /\ last.res = <<Response(200, "Contenido actualizado")>>
          /\ GetContent(TRUE))
         => /\ \A f \in DOMAIN last.input :
                 f \in DOMAIN last'.doc /\ last'.doc[f] = last.input[f]
            /\ \A f \in DOMAIN last.prior \ DOMAIN last.input :
                 f \in DOMAIN last'.doc /\ last'.doc[f] = last.prior[f]]_vars

\* C9: the collection holds at most one document; a later write modifies it
\* and creates no other.
C9_AtMostOneDocument == Len(contenido) <= 1

\* A contact field that is a string with a character that is not white space.
NonBlank(value) ==
    value.t = "string" /\ \E i \in DOMAIN value.v : value.v[i] \notin {" ", "\n"}

\* C6: a contact submission whose gname, gmail or message is missing, not a
\* string or blank is answered 400 and sendMail is not called; sendMail is
\* called only for a submission with all three non-blank.
C6_BlankFieldRejected ==
    (last.route = "/enviarCorreo")
      => /\ ~(NonBlank(last.input.gname) /\ NonBlank(last.input.gmail)
                /\ NonBlank(last.input.message))
              => /\ Len(last.res) = 1 /\ last.res[1].status = 400
                 /\ "sendMail" \notin last.calls
         /\ "sendMail" \in last.calls
              => (NonBlank(last.input.gname) /\ NonBlank(last.input.gmail)
                    /\ NonBlank(last.input.message))

\* C6 witness: a submission with a message of blanks only was answered 400,
\* with the optional fields present.
C6_Witness ==
    /\ last.route = "/enviarCorreo"
    /\ last.input.gname = CString(<<"a">>)
    /\ last.input.gmail = CString(<<"a">>)
    /\ last.input.message = CString(<<" ", " ">>)
    /\ last.input.cname # CUndefined
    /\ last.res = <<Response(400, "Por favor, completa todos los campos obligatorios.")>>

=============================================================================
